---- MODULE Spec2Model ----
(***************************************************************************)
(* git-stat (main.go): daily change statistics of a repository over a      *)
(* date range.  main validates its arguments, getGitStats folds the        *)
(* commits of the window into a day -> DailyStats map, and the render loop *)
(* of main prints one row per active day and one row per run of days       *)
(* without commits.                                                        *)
(*                                                                         *)
(* Time is counted in ticks, the smallest unit of a timestamp (the second  *)
(* of the code); a day is TicksPerDay ticks.  Day 0 is 2023-12-30, so the  *)
(* modelled window crosses a year boundary.                                *)
(***************************************************************************)
EXTENDS Integers, Sequences, FiniteSets, TLC

VARIABLES args, pc, startDate, endDate, repoAccessed, delivered, dailyStats,
          result, d, noChangeStartDate, noChangeDays, out, exitCode

vars == <<args, pc, startDate, endDate, repoAccessed, delivered, dailyStats,
          result, d, noChangeStartDate, noChangeDays, out, exitCode>>

(* ---------------------------- bounds ---------------------------------- *)
MaxDay == 2
MaxCommits == 2
TicksPerDay == 2

(* ------------------------- program constants --------------------------- *)
dateRangeWidth == 25
filesChangedWidth == 15
additionsWidth == 11
deletionsWidth == 11
totalChangesWidth == 15

totalWidth ==
  dateRangeWidth + filesChangedWidth + additionsWidth + deletionsWidth
    + totalChangesWidth + 4

(* ------------------------------ dates ---------------------------------- *)
\* time.Time.Format("2006-01-02") of the calendar day numbered day.
FormatDay(day) ==
  IF day + 30 <= 31 THEN <<2023, 12, day + 30>> ELSE <<2024, 1, day - 1>>

\* t.Format("2006-01-02") of an instant t (ticks, in its own location).
Format(t) == FormatDay(t \div TicksPerDay)

\* t.Format("01-02")
FormatMonthDay(t) == <<Format(t)[2], Format(t)[3]>>

\* t.Year()
Year(t) == Format(t)[1]

DaysIn(m) == IF m = 2 THEN 28 ELSE IF m \in {4, 6, 9, 11} THEN 30 ELSE 31

\* parseDate: time.Parse("2006-01-02", dateStr); midnight UTC of the day.
parseDate(dateStr) ==
  IF /\ Len(dateStr) = 3
     /\ dateStr[2] \in 1..12
     /\ dateStr[3] \in 1..DaysIn(dateStr[2])
  THEN [err |-> FALSE,
        t |-> TicksPerDay *
                (IF dateStr[1] = 2023 THEN dateStr[3] - 30 ELSE dateStr[3] + 1)]
  ELSE [err |-> TRUE, t |-> 0]

\* d.AddDate(0, 0, n)
AddDate(t, n) == t + n * TicksPerDay

(* ------------------------------ text ----------------------------------- *)
Digits(n) == IF n < 10 THEN 1 ELSE IF n < 100 THEN 2 ELSE 3

Lit(s, n) == [k |-> "lit", s |-> s, len |-> n]
DateText(ds) == [k |-> "date", date |-> ds, len |-> 10]
IntText(n) == [k |-> "int", n |-> n, len |-> Digits(n)]

\* formatDateRange: "start ~ end", the end without its year when the years agree
formatDateRange(s, e) ==
  IF Year(s) = Year(e)
  THEN [k |-> "range", start |-> Format(s), end |-> FormatMonthDay(e),
        len |-> 10 + 3 + 5]
  ELSE [k |-> "range", start |-> Format(s), end |-> Format(e),
        len |-> 10 + 3 + 10]

\* centerText: cut to width, or padded on both sides
centerText(text, width) ==
  IF text.len >= width
  THEN [text |-> text, cut |-> TRUE, left |-> 0, right |-> 0, len |-> width]
  ELSE [text |-> text, cut |-> FALSE,
        left |-> (width - text.len) \div 2,
        right |-> width - text.len - ((width - text.len) \div 2),
        len |-> width]

\* padText: cut to width, or padded on the right
padText(text, width) ==
  IF text.len >= width
  THEN [text |-> text, cut |-> TRUE, left |-> 0, right |-> 0, len |-> width]
  ELSE [text |-> text, cut |-> FALSE, left |-> 0,
        right |-> width - text.len, len |-> width]

Rule(color) == [kind |-> "rule", color |-> color, len |-> totalWidth]

\* printTableHeader
printTableHeader ==
  << [kind |-> "header", color |-> "none",
      cells |-> << centerText(Lit("Date Range", 10), dateRangeWidth),
                   centerText(Lit("Files Changed", 13), filesChangedWidth),
                   centerText(Lit("Additions", 9), additionsWidth),
                   centerText(Lit("Deletions", 9), deletionsWidth),
                   centerText(Lit("Total Changes", 13), totalChangesWidth) >>],
     Rule("none") >>

printTableRow_norule(dateRange, filesChanged, additions, deletions, totalChanges) ==
  << [kind |-> "row", color |-> "none",
      cells |-> << padText(dateRange, dateRangeWidth),
                   centerText(IntText(filesChanged), filesChangedWidth),
                   centerText(IntText(additions), additionsWidth),
                   centerText(IntText(deletions), deletionsWidth),
                   centerText(IntText(totalChanges), totalChangesWidth) >>] >>

\* printTableRow
printTableRow(dateRange, filesChanged, additions, deletions, totalChanges) ==
  << [kind |-> "row", color |-> "none",
      cells |-> << padText(dateRange, dateRangeWidth),
                   centerText(IntText(filesChanged), filesChangedWidth),
                   centerText(IntText(additions), additionsWidth),
                   centerText(IntText(deletions), deletionsWidth),
                   centerText(IntText(totalChanges), totalChangesWidth) >>],
     Rule("none") >>

\* printNoChangeRow
printNoChangeRow(dateRange, days) ==
  LET days_tip == IF days > 1 THEN "days" ELSE "day"
      message == [k |-> "msg", days |-> days, tip |-> days_tip,
                  len |-> Digits(days) + 1 + (IF days > 1 THEN 4 ELSE 3) + 11]
  IN << Rule("orange"),
        [kind |-> "nochange", color |-> "orange",
         cells |-> << padText(dateRange, dateRangeWidth),
                      centerText(message, totalWidth - dateRangeWidth - 1) >>],
        Rule("none") >>

Msg(s) == [kind |-> "msg", color |-> "none", text |-> s]

(* ----------------------------- commits --------------------------------- *)
\* Per-file statistics lists a commit's Stats() may return.
StatsUniverse ==
  { << >>,
    << [Name |-> "a", Addition |-> 3, Deletion |-> 1] >>,
    << [Name |-> "a", Addition |-> 5, Deletion |-> 0] >>,
    << [Name |-> "a", Addition |-> 5, Deletion |-> 0],
       [Name |-> "b", Addition |-> 1, Deletion |-> 2] >> }

\* Offsets of the author's time zone from UTC, in ticks.
Offsets == {-1, 0, 1}

\* A commit: the instant of its author timestamp, the zone offset the
\* timestamp carries, and its per-file statistics.
Commits(since, until) ==
  [when : since..until, off : Offsets, stats : StatsUniverse]

\* c.Author.When.Format("2006-01-02"): the day in the timestamp's own zone
commitDate(c) == Format(c.when + c.off)

EmptyMap == [k \in {} |-> 0]
NilResult == [isNil |-> TRUE, m |-> EmptyMap, err |-> "none"]

Ensure_always(ds, key) ==
  [k \in DOMAIN ds \cup {key} |->
     IF k = key
     THEN [FilesChanged |-> {}, Additions |-> 0, Deletions |-> 0]
     ELSE ds[k]]

\* dailyStats[commitDate] = &DailyStats{FilesChanged: make(...)} when absent
Ensure(ds, key) ==
  IF key \in DOMAIN ds THEN ds
  ELSE [k \in DOMAIN ds \cup {key} |->
          IF k = key
          THEN [FilesChanged |-> {}, Additions |-> 0, Deletions |-> 0]
          ELSE ds[k]]

AddStat_once(ds, key, stat) ==
  [ds EXCEPT ![key] =
     [FilesChanged |-> @.FilesChanged \cup {stat.Name},
      Additions |-> IF stat.Name \in @.FilesChanged THEN @.Additions
                    ELSE @.Additions + stat.Addition,
      Deletions |-> IF stat.Name \in @.FilesChanged THEN @.Deletions
                    ELSE @.Deletions + stat.Deletion]]

AddStat_last(ds, key, stat) ==
  [ds EXCEPT ![key] =
     [FilesChanged |-> {stat.Name},
      Additions |-> @.Additions + stat.Addition,
      Deletions |-> @.Deletions + stat.Deletion]]

\* body of the loop over stats: one per-file entry
AddStat(ds, key, stat) ==
  [ds EXCEPT ![key] =
     [FilesChanged |-> @.FilesChanged \cup {stat.Name},
      Additions |-> @.Additions + stat.Addition,
      Deletions |-> @.Deletions + stat.Deletion]]

RECURSIVE AddStats(_, _, _)
AddStats(ds, key, stats) ==
  IF stats = << >> THEN ds
  ELSE AddStats(AddStat(ds, key, Head(stats)), key, Tail(stats))

\* the ForEach callback for one commit whose Stats() succeeded: the commit's
\* formatted author day and its per-file statistics are all it reads
FoldCommit(ds, date, stats) == AddStats(Ensure(ds, date), date, stats)

\* what the callback has read of a commit it folded
Folded(c) == [date |-> commitDate(c), stats |-> c.stats]

(* ------------------------------ inputs --------------------------------- *)
ArgDates ==
  { FormatDay(day) : day \in 0..MaxDay } \cup { <<2023, 13, 1>>, <<2023, 12>> }

Init ==
  /\ args \in [argc : {3, 4, 5}, start : ArgDates, end : ArgDates]
  /\ pc = "args"
  /\ startDate = 0
  /\ endDate = 0
  /\ repoAccessed = FALSE
  /\ delivered = << >>
  /\ dailyStats = EmptyMap
  /\ result = NilResult
  /\ d = 0
  /\ noChangeStartDate = 0
  /\ noChangeDays = 0
  /\ out = << >>
  /\ exitCode = -1

Exit(code, lines) ==
  /\ pc' = "exited"
  /\ exitCode' = code
  /\ out' = out \o lines

(* ------------------------------- main ---------------------------------- *)
Before_orEqual(a, b) == a <= b

\* endDate.Before(startDate)
Before(a, b) == a < b

GapEnd_same(t) == t

\* d.AddDate(0, 0, -1): the last day of a gap closed by the active day d
GapEnd(t) == AddDate(t, -1)

GapStart_always(n, t, old) == t

\* if noChangeDays == 0 { noChangeStartDate = d }
GapStart(n, t, old) == IF n = 0 THEN t ELSE old

AfterGap_keep(n) == n

\* noChangeDays = 0 after the gap row, inside if noChangeDays > 0
AfterGap(n) == 0

ErrResult_partial(ds, e) == [isNil |-> FALSE, m |-> ds, err |-> e]

\* return nil, err
ErrResult(ds, e) == [isNil |-> TRUE, m |-> EmptyMap, err |-> e]

\* if len(os.Args) != 4
CheckArgs ==
  /\ pc = "args"
  /\ IF args.argc # 4
     THEN Exit(1, << Msg("Usage"), Msg("Example") >>)
     ELSE /\ pc' = "parseStart"
          /\ UNCHANGED <<out, exitCode>>
  /\ UNCHANGED <<args, startDate, endDate, repoAccessed, delivered, dailyStats,
                 result, d, noChangeStartDate, noChangeDays>>

ParseStart ==
  /\ pc = "parseStart"
  /\ IF parseDate(args.start).err
     THEN /\ Exit(1, << Msg("Invalid start date format") >>)
          /\ UNCHANGED startDate
     ELSE /\ startDate' = parseDate(args.start).t
          /\ pc' = "parseEnd"
          /\ UNCHANGED <<out, exitCode>>
  /\ UNCHANGED <<args, endDate, repoAccessed, delivered, dailyStats, result, d,
                 noChangeStartDate, noChangeDays>>

ParseEnd ==
  /\ pc = "parseEnd"
  /\ IF parseDate(args.end).err
     THEN /\ Exit(1, << Msg("Invalid end date format") >>)
          /\ UNCHANGED endDate
     ELSE /\ endDate' = parseDate(args.end).t
          /\ pc' = "order"
          /\ UNCHANGED <<out, exitCode>>
  /\ UNCHANGED <<args, startDate, repoAccessed, delivered, dailyStats, result,
                 d, noChangeStartDate, noChangeDays>>

\* if endDate.Before(startDate)
CheckOrder ==
  /\ pc = "order"
  /\ IF Before(endDate, startDate)
     THEN Exit(1, << Msg("End date must be after start date") >>)
     ELSE /\ pc' = "abs"
          /\ UNCHANGED <<out, exitCode>>
  /\ UNCHANGED <<args, startDate, endDate, repoAccessed, delivered, dailyStats,
                 result, d, noChangeStartDate, noChangeDays>>

\* filepath.Abs(repoPath), which may fail
ResolvePath ==
  /\ pc = "abs"
  /\ \/ Exit(1, << Msg("Error resolving repository path") >>)
     \/ /\ pc' = "open"
        /\ UNCHANGED <<out, exitCode>>
  /\ UNCHANGED <<args, startDate, endDate, repoAccessed, delivered, dailyStats,
                 result, d, noChangeStartDate, noChangeDays>>

(* ---------------------------- getGitStats ------------------------------- *)
Return(res) ==
  /\ result' = res
  /\ pc' = "returned"

\* git.PlainOpen(repoPath)
OpenRepo ==
  /\ pc = "open"
  /\ repoAccessed' = TRUE
  /\ \/ Return(ErrResult(EmptyMap, "open"))
     \/ /\ pc' = "log"
        /\ UNCHANGED result
  /\ UNCHANGED <<args, startDate, endDate, delivered, dailyStats, d,
                 noChangeStartDate, noChangeDays, out, exitCode>>

\* repo.Log(Since, Until) and dailyStats := make(map)
StartLog ==
  /\ pc = "log"
  /\ \/ /\ Return(ErrResult(EmptyMap, "log"))
        /\ UNCHANGED dailyStats
     \/ /\ pc' = "foreach"
        /\ dailyStats' = EmptyMap
        /\ UNCHANGED result
  /\ UNCHANGED <<args, startDate, endDate, repoAccessed, delivered, d,
                 noChangeStartDate, noChangeDays, out, exitCode>>

\* endDate.Add(24 * time.Hour).Add(-time.Second)
Until == endDate + TicksPerDay - 1

\* one call of the ForEach callback, on a commit of the window
ForEachCommit ==
  /\ pc = "foreach"
  /\ Len(delivered) < MaxCommits
  /\ \E c \in Commits(startDate, Until) :
       \/ \* c.Stats() fails: the callback returns the error
          /\ Return(ErrResult(dailyStats, "stats"))
          /\ UNCHANGED <<dailyStats, delivered>>
       \/ /\ dailyStats' = FoldCommit(dailyStats, commitDate(c), c.stats)
          /\ delivered' = Append(delivered, Folded(c))
          /\ UNCHANGED <<pc, result>>
  /\ UNCHANGED <<args, startDate, endDate, repoAccessed, d, noChangeStartDate,
                 noChangeDays, out, exitCode>>

\* the iterator ends, or fails
ForEachEnd ==
  /\ pc = "foreach"
  /\ \/ Return(ErrResult(dailyStats, "iter"))
     \/ Return([isNil |-> FALSE, m |-> dailyStats, err |-> "none"])
  /\ UNCHANGED <<args, startDate, endDate, repoAccessed, delivered, dailyStats,
                 d, noChangeStartDate, noChangeDays, out, exitCode>>

(* --------------------------- main, continued ---------------------------- *)
\* if err != nil { exit 1 }; printTableHeader(); loop initialisation
AfterGetGitStats ==
  /\ pc = "returned"
  /\ IF result.err # "none"
     THEN /\ Exit(1, << Msg("Error getting Git statistics") >>)
          /\ UNCHANGED <<d, noChangeStartDate, noChangeDays>>
     ELSE /\ out' = out \o printTableHeader
          /\ d' = startDate
          /\ noChangeDays' = 0
          /\ noChangeStartDate' = 0
          /\ pc' = "loop"
          /\ UNCHANGED exitCode
  /\ UNCHANGED <<args, startDate, endDate, repoAccessed, delivered, dailyStats,
                 result>>

\* one iteration of the loop over the days of the range
LoopDay ==
  /\ pc = "loop"
  /\ ~(d > endDate)
  /\ LET dateStr == Format(d)
         ok == dateStr \in DOMAIN result.m
     IN IF ~ok
        THEN /\ noChangeStartDate' =
                  GapStart(noChangeDays, d, noChangeStartDate)
             /\ noChangeDays' = noChangeDays + 1
             /\ UNCHANGED out
        ELSE LET stats == result.m[dateStr]
                 gap == IF noChangeDays > 0
                        THEN printNoChangeRow(
                               formatDateRange(noChangeStartDate, GapEnd(d)),
                               noChangeDays)
                        ELSE << >>
                 totalChanges == stats.Additions + stats.Deletions
             IN /\ out' = out \o gap \o
                            printTableRow(DateText(dateStr),
                                          Cardinality(stats.FilesChanged),
                                          stats.Additions, stats.Deletions,
                                          totalChanges)
                /\ noChangeDays' = IF noChangeDays > 0
                                   THEN AfterGap(noChangeDays) ELSE noChangeDays
                /\ UNCHANGED noChangeStartDate
  /\ d' = AddDate(d, 1)
  /\ UNCHANGED <<args, pc, startDate, endDate, repoAccessed, delivered,
                 dailyStats, result, exitCode>>

\* the loop ends; a gap still open is printed; main returns
LoopEnd ==
  /\ pc = "loop"
  /\ d > endDate
  /\ Exit(0, IF noChangeDays > 0
             THEN printNoChangeRow(formatDateRange(noChangeStartDate, endDate),
                                   noChangeDays)
             ELSE << >>)
  /\ UNCHANGED <<args, startDate, endDate, repoAccessed, delivered, dailyStats,
                 result, d, noChangeStartDate, noChangeDays>>

Next ==
  \/ CheckArgs
  \/ ParseStart
  \/ ParseEnd
  \/ CheckOrder
  \/ ResolvePath
  \/ OpenRepo
  \/ StartLog
  \/ ForEachCommit
  \/ ForEachEnd
  \/ AfterGetGitStats
  \/ LoopDay
  \/ LoopEnd

Spec == Init /\ [][Next]_vars

(* ====================== reading the printed table ======================= *)
Day(t) == t \div TicksPerDay
StartDay == Day(startDate)
EndDay == Day(endDate)
RangeDays == StartDay..EndDay

\* the day a printed date names
DayOfLabel(ds) == Day(parseDate(ds).t)

Rows == SelectSeq(out, LAMBDA l : l.kind \in {"row", "nochange"})

IsGap(l) == l.kind = "nochange"
IsActive(l) == l.kind = "row"

\* first and last day a printed row covers, read from its label
RowFrom(l) ==
  IF IsGap(l) THEN DayOfLabel(l.cells[1].text.start)
  ELSE DayOfLabel(l.cells[1].text.date)

RowTo(l) ==
  IF IsGap(l)
  THEN LET lab == l.cells[1].text
       IN IF Len(lab.end) = 2
          THEN DayOfLabel(<<lab.start[1], lab.end[1], lab.end[2]>>)
          ELSE DayOfLabel(lab.end)
  ELSE DayOfLabel(l.cells[1].text.date)

\* the number of days a printed row stands for
RowDays(l) == IF IsGap(l) THEN l.cells[2].text.days ELSE 1

RECURSIVE SumDays(_)
SumDays(rows) ==
  IF rows = << >> THEN 0 ELSE RowDays(Head(rows)) + SumDays(Tail(rows))

Done == pc = "exited" /\ exitCode = 0
HasEntry(day) == FormatDay(day) \in DOMAIN result.m
NoTable == \A i \in 1..Len(out) : out[i].kind = "msg"

(* ------------------------------- C1 ------------------------------------- *)
\* C1: when the run has printed its table, the day counts of the rows (1 for
\* an Active row, the printed count for a Gap row) add up to the number of
\* days of the range, and the rows, read by their labels, tile the range:
\* the first starts at startDate, each next one starts the day after the
\* previous one ends, and the last ends at endDate.
C1_Coverage ==
  Done =>
    /\ SumDays(Rows) = EndDay - StartDay + 1
    /\ Rows # << >>
    /\ RowFrom(Rows[1]) = StartDay
    /\ RowTo(Rows[Len(Rows)]) = EndDay
    /\ \A i \in 1..Len(Rows) : RowFrom(Rows[i]) <= RowTo(Rows[i])
    /\ \A i \in 1..(Len(Rows) - 1) : RowFrom(Rows[i + 1]) = RowTo(Rows[i]) + 1

C1_Witness ==
  /\ Done
  /\ Len(Rows) = 3
  /\ IsGap(Rows[1]) /\ IsActive(Rows[2]) /\ IsGap(Rows[3])

(* ------------------------------- C2 ------------------------------------- *)
\* the maximal runs of days of the range without an entry in the index
MaximalRuns ==
  { r \in RangeDays \X RangeDays :
      /\ r[1] <= r[2]
      /\ \A day \in r[1]..r[2] : ~HasEntry(day)
      /\ (r[1] = StartDay \/ HasEntry(r[1] - 1))
      /\ (r[2] = EndDay \/ HasEntry(r[2] + 1)) }

GapRowIdx == { i \in 1..Len(Rows) : IsGap(Rows[i]) }
ActiveRowIdx == { i \in 1..Len(Rows) : IsActive(Rows[i]) }

\* C2: the printed table has exactly one Active row for each day of the
\* range with an entry in the index and exactly one Gap row for each maximal
\* run of days without an entry; no two Gap rows are adjacent; an index with
\* no day of the range gives one Gap row over the whole range, an index with
\* every day gives none.
C2_RowsMatchIndex ==
  Done =>
    /\ { RowFrom(Rows[i]) : i \in ActiveRowIdx }
         = { day \in RangeDays : HasEntry(day) }
    /\ Cardinality(ActiveRowIdx)
         = Cardinality({ day \in RangeDays : HasEntry(day) })
    /\ { <<RowFrom(Rows[i]), RowTo(Rows[i])>> : i \in GapRowIdx } = MaximalRuns
    /\ Cardinality(GapRowIdx) = Cardinality(MaximalRuns)
    /\ \A i \in 1..(Len(Rows) - 1) : ~(IsGap(Rows[i]) /\ IsGap(Rows[i + 1]))
    /\ (\A day \in RangeDays : ~HasEntry(day)) =>
          /\ Len(Rows) = 1
          /\ IsGap(Rows[1])
          /\ RowFrom(Rows[1]) = StartDay
          /\ RowTo(Rows[1]) = EndDay
    /\ (\A day \in RangeDays : HasEntry(day)) => GapRowIdx = {}

C2_Witness ==
  /\ Done
  /\ Len(Rows) = 3
  /\ IsActive(Rows[1]) /\ IsGap(Rows[2]) /\ IsActive(Rows[3])

(* ------------------------------- C3 ------------------------------------- *)
Returned == pc \in {"returned", "loop", "exited"} /\ result.err = "none"
               /\ repoAccessed

\* C3: the returned index has a key for day D exactly when a retrieved
\* commit's author day is D and D lies in [startDate, endDate]; no key lies
\* outside the range.
C3_KeysInRange ==
  (Returned /\ ~result.isNil) =>
    \A day \in (StartDay - 1)..(EndDay + 1) :
      FormatDay(day) \in DOMAIN result.m
        <=> /\ \E i \in 1..Len(delivered) : delivered[i].date = FormatDay(day)
            /\ day \in RangeDays

(* ------------------------------- C4 ------------------------------------- *)
RECURSIVE SumAdd(_)
SumAdd(stats) ==
  IF stats = << >> THEN 0 ELSE Head(stats).Addition + SumAdd(Tail(stats))

RECURSIVE SumDel(_)
SumDel(stats) ==
  IF stats = << >> THEN 0 ELSE Head(stats).Deletion + SumDel(Tail(stats))

RECURSIVE DayAdditions(_, _)
DayAdditions(cs, key) ==
  IF cs = << >> THEN 0
  ELSE (IF Head(cs).date = key THEN SumAdd(Head(cs).stats) ELSE 0)
         + DayAdditions(Tail(cs), key)

RECURSIVE DayDeletions(_, _)
DayDeletions(cs, key) ==
  IF cs = << >> THEN 0
  ELSE (IF Head(cs).date = key THEN SumDel(Head(cs).stats) ELSE 0)
         + DayDeletions(Tail(cs), key)

\* C4: for every day of the index, Additions is the sum of the addition
\* counts of all per-file entries of all folded commits of that day, and
\* Deletions the sum of their deletion counts; repeated touches of a file
\* all count.
C4_SumsAccumulate ==
  \A key \in DOMAIN dailyStats :
    /\ dailyStats[key].Additions = DayAdditions(delivered, key)
    /\ dailyStats[key].Deletions = DayDeletions(delivered, key)

C4_Witness ==
  /\ Len(delivered) = 2
  /\ delivered[1].stats = << [Name |-> "a", Addition |-> 3, Deletion |-> 1] >>
  /\ delivered[2].stats = << [Name |-> "a", Addition |-> 5, Deletion |-> 0] >>
  /\ delivered[1].date = delivered[2].date
  /\ dailyStats[delivered[1].date].Additions = 8
  /\ dailyStats[delivered[1].date].Deletions = 1
  /\ dailyStats[delivered[1].date].FilesChanged = {"a"}

(* ------------------------------- C5 ------------------------------------- *)
DayFiles(cs, key) ==
  UNION { { cs[i].stats[j].Name : j \in 1..Len(cs[i].stats) } :
            i \in { n \in 1..Len(cs) : cs[n].date = key } }

\* C5: for every day of the index the size of FilesChanged is the number of
\* distinct file names in the per-file entries of the folded commits of that
\* day, and the files-changed cell of the day's Active row shows that number.
C5_DistinctFiles ==
  /\ \A key \in DOMAIN dailyStats :
       Cardinality(dailyStats[key].FilesChanged)
         = Cardinality(DayFiles(delivered, key))
  /\ \A i \in 1..Len(out) :
       IsActive(out[i]) =>
         out[i].cells[2].text.n
           = Cardinality(DayFiles(delivered, out[i].cells[1].text.date))

C5_Witness ==
  /\ Done
  /\ Len(delivered) = 2
  /\ delivered[1].date = delivered[2].date
  /\ Len(delivered[1].stats) = 2 /\ Len(delivered[2].stats) = 1
  /\ \E i \in 1..Len(out) : IsActive(out[i]) /\ out[i].cells[2].text.n = 2

(* ------------------------------- C6 ------------------------------------- *)
RECURSIVE FoldAll(_, _)
FoldAll(ds, cs) ==
  IF cs = << >> THEN ds ELSE FoldAll(FoldCommit(ds, Head(cs).date, Head(cs).stats), Tail(cs))

Orders(n) == { f \in [1..n -> 1..n] : \A i, j \in 1..n : f[i] = f[j] => i = j }

\* C6: the index is the same whatever the order in which the commits are
\* delivered: folding the delivered commits in any other order from an empty
\* map gives the index the run built.
C6_OrderIndependent ==
  pc = "returned" =>
    \A f \in Orders(Len(delivered)) :
      FoldAll(EmptyMap, [i \in 1..Len(delivered) |-> delivered[f[i]]])
        = dailyStats

C6_Witness ==
  /\ pc = "returned"
  /\ Len(delivered) = 2
  /\ delivered[1].date = delivered[2].date
  /\ delivered[1].stats # delivered[2].stats
  /\ delivered[1].stats # << >>

(* ------------------------------- C7 ------------------------------------- *)
ArgsInvalid ==
  \/ args.argc # 4
  \/ parseDate(args.start).err
  \/ parseDate(args.end).err
  \/ parseDate(args.end).t < parseDate(args.start).t

ValidationMsgs ==
  {"Usage", "Example", "Invalid start date format", "Invalid end date format",
   "End date must be after start date"}

\* C7: with a wrong argument count, an unparseable date or an end date before
\* the start date, the repository is never accessed, nothing but error
\* messages is printed and the exit code is 1; otherwise (a start date equal
\* to the end date included) no validation error is reported.
C7_ValidationFirst ==
  /\ ArgsInvalid =>
       /\ ~repoAccessed
       /\ pc \in {"args", "parseStart", "parseEnd", "order", "exited"}
       /\ NoTable
       /\ pc = "exited" =>
            /\ exitCode = 1
            /\ out # << >>
            /\ \A i \in 1..Len(out) : out[i].text \in ValidationMsgs
  /\ ~ArgsInvalid =>
       \A i \in 1..Len(out) :
         out[i].kind = "msg" => out[i].text \notin ValidationMsgs

C7_Witness ==
  /\ pc = "exited"
  /\ exitCode = 1
  /\ args.argc = 4
  /\ ~parseDate(args.start).err /\ ~parseDate(args.end).err
  /\ endDate < startDate

(* ------------------------------- C8 ------------------------------------- *)
\* C8: when getGitStats fails it returns a nil index with the error, never
\* the partly filled map, and main exits with code 1 having printed neither
\* the header nor a row.
C8_NoPartialIndex ==
  result.err # "none" =>
    /\ result.isNil
    /\ result.m = EmptyMap
    /\ pc \in {"returned", "exited"}
    /\ NoTable
    /\ pc = "exited" => exitCode = 1

C8_Witness ==
  /\ pc = "exited"
  /\ result.err = "stats"
  /\ Len(delivered) >= 1
  /\ DOMAIN dailyStats # {}

(* ------------------------------- C9 ------------------------------------- *)
PlainRule(l) == l.kind = "rule" /\ l.color = "none" /\ l.len = totalWidth
OrangeRule(l) == l.kind = "rule" /\ l.color = "orange" /\ l.len = totalWidth

\* C9 as stated: the output is the header, a rule, and then row / rule pairs.
C9_RowRulePairs ==
  Done =>
    /\ Len(out) = 2 + 2 * Len(Rows)
    /\ out[1].kind = "header"
    /\ \A i \in 1..Len(out) :
         /\ (i % 2 = 0) => out[i].kind = "rule"
         /\ (i % 2 = 1 /\ i > 1) => out[i].kind \in {"row", "nochange"}

\* C9, amended: the output is the header and a rule, then for each row in
\* ascending date order an Active row's line followed by a rule, or a Gap
\* row's line between an orange rule before it and a rule after it; the
\* header and every row are each followed by a full-width rule.
C9_TableShape ==
  Done =>
    /\ Len(out) = 2 + 2 * Cardinality(ActiveRowIdx) + 3 * Cardinality(GapRowIdx)
    /\ out[1].kind = "header"
    /\ \A i \in 1..Len(out) :
         /\ out[i].kind \in {"header", "row", "nochange", "rule"}
         /\ out[i].kind = "header" => i = 1
         /\ out[i].kind \in {"header", "row", "nochange"} =>
              i < Len(out) /\ PlainRule(out[i + 1])
         /\ out[i].kind = "nochange" => OrangeRule(out[i - 1])
         /\ OrangeRule(out[i]) => i < Len(out) /\ out[i + 1].kind = "nochange"
         /\ PlainRule(out[i]) => out[i - 1].kind \in {"header", "row", "nochange"}
    /\ \A i \in 1..(Len(Rows) - 1) : RowFrom(Rows[i]) < RowFrom(Rows[i + 1])

C9_Witness ==
  /\ Done
  /\ Len(Rows) = 3
  /\ IsActive(Rows[1]) /\ IsGap(Rows[2]) /\ IsActive(Rows[3])
  /\ Len(out) = 9

(* ------------------------------- C10 ------------------------------------ *)
\* the step prints a Gap row
EmitsGap == Len(out') > Len(out) /\ out'[Len(out) + 1].kind = "rule"
               /\ out'[Len(out) + 1].color = "orange"
NewGap == out'[Len(out) + 2]

GapRowRight ==
  /\ RowDays(NewGap) = noChangeDays
  /\ RowDays(NewGap) = RowTo(NewGap) - RowFrom(NewGap) + 1
  /\ RowDays(NewGap) >= 1
  /\ RowFrom(NewGap) = Day(noChangeStartDate)
  /\ pc' = "loop" => RowTo(NewGap) = Day(d) - 1 /\ HasEntry(Day(d))
  /\ pc' = "exited" => RowTo(NewGap) = EndDay

\* C10 as stated: the count of every emitted Gap row is the running counter
\* and the number of days from the gap's start to its end, and the counter is
\* 0 after each emitted Gap row.
C10_ResetAfterEveryGap ==
  [][EmitsGap => (GapRowRight /\ noChangeDays' = 0)]_vars

\* C10, amended: the count of every emitted Gap row is the running counter,
\* equals (end - start) in days + 1 and is at least 1; the end is the day
\* before the active day that closes the gap, or endDate for the gap still
\* open after the loop; the counter is reset to 0 after each Gap row emitted
\* inside the loop and left as it is after the Gap row emitted after the loop.
C10_GapCount ==
  [][EmitsGap =>
       /\ GapRowRight
       /\ pc' = "loop" => noChangeDays' = 0
       /\ pc' = "exited" => noChangeDays' = noChangeDays]_vars

C10_Witness ==
  /\ pc = "loop"
  /\ noChangeDays = 0
  /\ Len(Rows) = 2
  /\ IsGap(Rows[1]) /\ RowDays(Rows[1]) = 2
  /\ IsActive(Rows[2])
====
